---------------------------- MODULE Spec2Model ----------------------------
(***************************************************************************)
(* A model of cytek_log_parser.py: strip_timestamp, parse_log_file and     *)
(* aggregate_errors.  Text is a sequence of one-character strings; the     *)
(* regular expressions of the source are syntax trees interpreted by a     *)
(* backtracking matcher, and re.sub is the left-to-right scan of Python's  *)
(* re module.                                                              *)
(***************************************************************************)
EXTENDS Integers, Sequences, FiniteSets, TLC

VARIABLES
    pc,               \* position of the modelled call
    file,             \* parse_log_file: the stream, [kind, data]
    pos,              \* parse_log_file: offset of the file iterator in data
    i,                \* parse_log_file: enumerate() index of the current line
    lines,            \* parse_log_file: the lines list
    errors,           \* parse_log_file: the errors list, <<i, text>> pairs
    logs_errors,      \* aggregate_errors: the argument, <<name, entries>> pairs in dict order
    src,              \* aggregate_errors: index of the source the outer loop is in
    idx,              \* aggregate_errors: index of the entry the inner loop is in
    err,              \* aggregate_errors: local err
    no_time,          \* aggregate_errors: local no_time
    no_time_lower,    \* aggregate_errors: local no_time_lower
    new_no_time,      \* aggregate_errors: local new_no_time
    key,              \* aggregate_errors: local key
    summary,          \* aggregate_errors: dict summary, <<key, count>> pairs in insertion order
    total,            \* aggregate_errors: local total
    display_summary,  \* aggregate_errors: returned dict, <<key, count>> pairs in order
    percentages,      \* aggregate_errors: returned dict, <<key, string>> pairs in order
    s_in,             \* strip_timestamp: the argument of the first call
    s_once,           \* strip_timestamp: its result
    s_twice           \* strip_timestamp: the result of a call on s_once

vars == <<pc, file, pos, i, lines, errors, logs_errors, src, idx, err, no_time,
          no_time_lower, new_no_time, key, summary, total, display_summary,
          percentages, s_in, s_once, s_twice>>

-----------------------------------------------------------------------------
(* Text *)

\* A string literal as a sequence of its characters.
Chars(str) == [k \in 1..Len(str) |-> SubSeq(str, k, k)]

LowerLetters == Chars("abcdefghijklmnopqrstuvwxyz")
UpperLetters == Chars("ABCDEFGHIJKLMNOPQRSTUVWXYZ")

Range(f) == {f[k] : k \in DOMAIN f}

AsciiLower == Range(LowerLetters)
AsciiUpper == Range(UpperLetters)
AsciiLetter == AsciiLower \cup AsciiUpper
Digit == Range(Chars("0123456789"))
\* A letter outside ASCII (a word character that [a-zA-Z] does not match).
OtherLetter == {"é"}
\* Python's \s and str.strip() on the characters of the model.
Whitespace == {" ", "\t", "\n", "\r", "\f"}
\* Python's \w on the characters of the model.
WordChar == AsciiLetter \cup Digit \cup OtherLetter \cup {"_"}

IndexOf(seq, c) == CHOOSE k \in DOMAIN seq : seq[k] = c

\* str.lower() and str.upper() on one character.
LowerChar(c) == IF c \in AsciiUpper THEN LowerLetters[IndexOf(UpperLetters, c)]
                ELSE IF c = "É" THEN "é" ELSE c
UpperChar(c) == IF c \in AsciiLower THEN UpperLetters[IndexOf(LowerLetters, c)]
                ELSE IF c = "é" THEN "É" ELSE c

lower(s) == [k \in DOMAIN s |-> LowerChar(s[k])]

\* The least j in a..b with f[j] true; b + 1 when there is none.
First(a, b, f) ==
    IF \E j \in a..b : f[j]
    THEN CHOOSE j \in a..b : f[j] /\ \A h \in a..(j - 1) : ~f[h]
    ELSE b + 1

\* s without its leading, or its trailing, characters that are in cs.
lstrip_chars(s, cs) ==
    SubSeq(s, First(1, Len(s), [k \in 1..Len(s) |-> s[k] \notin cs]), Len(s))
rstrip_chars(s, cs) ==
    SubSeq(s, 1, Len(s) - First(0, Len(s) - 1, [k \in 0..(Len(s) - 1) |-> s[Len(s) - k] \notin cs]))

\* str.strip(): leading and trailing whitespace removed.
strip(s) == rstrip_chars(lstrip_chars(s, Whitespace), Whitespace)

\* str.rstrip('\n'): every trailing newline removed, nothing else.
rstrip_newline(s) == rstrip_chars(s, {"\n"})

\* Python's `sub in s`.
Contains(s, sub) ==
    \E k \in 0..(Len(s) - Len(sub)) : SubSeq(s, k + 1, k + Len(sub)) = sub

-----------------------------------------------------------------------------
(* Regular expressions: syntax trees and Python's backtracking matcher.    *)
(* A position is the number of characters before it, 0..Len(s).            *)

Set(cs) == [t |-> "set", cs |-> cs, neg |-> FALSE]
NotSet(cs) == [t |-> "set", cs |-> cs, neg |-> TRUE]
Lit(c) == Set({c})
\* A literal letter under re.IGNORECASE.
LitI(c) == Set({LowerChar(c), UpperChar(c)})
Cat(xs) == [t |-> "seq", xs |-> xs]
Alt(xs) == [t |-> "alt", xs |-> xs]
\* Greedy repetition x{lo,hi}; hi = -1 is no upper limit.
Rep(x, lo, hi) == [t |-> "rep", x |-> x, lo |-> lo, hi |-> hi]
Opt(x) == Rep(x, 0, 1)
Star(x) == Rep(x, 0, -1)
Plus(x) == Rep(x, 1, -1)
WordBoundary == [t |-> "wb"]
StartOfString == [t |-> "bol"]

\* \b at position p of s.
AtBoundary(s, p) ==
    LET before == p > 0 /\ s[p] \in WordChar
        after == p < Len(s) /\ s[p + 1] \in WordChar
    IN  before # after

\* Ends(n, s, p): the positions at which a match of n starting at p can end,
\* in the order the backtracking matcher tries them (greedy first).
RECURSIVE Ends(_, _, _)
RECURSIVE EndsSeq(_, _, _, _)
RECURSIVE ThenSeq(_, _, _, _)
RECURSIVE EndsAlt(_, _, _, _)
RECURSIVE EndsRep(_, _, _, _)
RECURSIVE ThenRep(_, _, _, _, _)

\* A greedy repetition of a character set: the matcher takes the longest run
\* the limits allow and gives the characters back one at a time.
EndsRun(n, s, p) ==
    LET lim == IF n.hi = -1 \/ Len(s) - p < n.hi THEN Len(s) - p ELSE n.hi
        run == First(1, lim, [j \in 1..lim |-> (s[p + j] \in n.x.cs) = n.x.neg]) - 1
    IN  IF run < n.lo THEN <<>>
        ELSE <<>> \o [j \in 1..(run - n.lo + 1) |-> p + run - j + 1]

Ends(n, s, p) ==
    CASE n.t = "set" -> IF p < Len(s) /\ ((s[p + 1] \in n.cs) # n.neg)
                        THEN <<p + 1>> ELSE <<>>
      [] n.t = "wb"  -> IF AtBoundary(s, p) THEN <<p>> ELSE <<>>
      [] n.t = "bol" -> IF p = 0 THEN <<p>> ELSE <<>>
      [] n.t = "seq" -> EndsSeq(n.xs, 1, s, p)
      [] n.t = "alt" -> EndsAlt(n.xs, 1, s, p)
      [] n.t = "rep" -> IF n.x.t = "set" THEN EndsRun(n, s, p)
                        ELSE EndsRep(n, 0, s, p)

EndsSeq(xs, k, s, p) ==
    IF k > Len(xs) THEN <<p>> ELSE ThenSeq(Ends(xs[k], s, p), xs, k + 1, s)

\* The rest of a sequence after each end in es, in the order of es (the
\* list is split in halves only to keep the evaluation shallow).
ThenSeq(es, xs, k, s) ==
    IF es = <<>> THEN <<>>
    ELSE IF Len(es) = 1 THEN EndsSeq(xs, k, s, es[1])
    ELSE ThenSeq(SubSeq(es, 1, Len(es) \div 2), xs, k, s)
         \o ThenSeq(SubSeq(es, Len(es) \div 2 + 1, Len(es)), xs, k, s)

EndsAlt(xs, k, s, p) ==
    IF k > Len(xs) THEN <<>> ELSE Ends(xs[k], s, p) \o EndsAlt(xs, k + 1, s, p)

EndsRep(n, cnt, s, p) ==
    (IF n.hi = -1 \/ cnt < n.hi
     THEN ThenRep(Ends(n.x, s, p), n, cnt + 1, s, p) ELSE <<>>)
    \o (IF cnt >= n.lo THEN <<p>> ELSE <<>>)

ThenRep(es, n, cnt, s, p) ==
    IF es = <<>> THEN <<>>
    ELSE (IF Head(es) > p THEN EndsRep(n, cnt, s, Head(es)) ELSE <<>>)
         \o ThenRep(Tail(es), n, cnt, s, p)

\* Where the match of n that starts at p ends; -1 when none starts there.
\* (No pattern of the source matches the empty string.)
MatchEnd(n, s, p) ==
    LET es == Ends(n, s, p)
    IN  IF es # <<>> /\ Head(es) > p THEN Head(es) ELSE -1

\* MatchEnd at every position 0..Len(s)-1 (kept at index position + 1).
MatchTable(n, s) == <<>> \o [q \in 1..Len(s) |-> MatchEnd(n, s, q - 1)]

\* The scan of re.sub from position p: copy up to the earliest position at
\* which a match starts, put repl for the match, go on after it.
RECURSIVE SubFrom(_, _, _, _)
SubFrom(tbl, repl, s, p) ==
    LET q == First(p + 1, Len(s), [k \in 1..Len(s) |-> tbl[k] # -1])
    IN  IF q > Len(s) THEN SubSeq(s, p + 1, Len(s))
        ELSE SubSeq(s, p + 1, q - 1) \o repl \o SubFrom(tbl, repl, s, tbl[q])

\* re.sub(pattern, repl, s): matching always looks at the original s.
re_sub(n, repl, s) == SubFrom(MatchTable(n, s), repl, s, 0)

-----------------------------------------------------------------------------
(* strip_timestamp *)

D == Set(Digit)
Slash == Lit("/")
Dash == Lit("-")
Colon == Lit(":")
Spaces == Star(Set(Whitespace))
AmPm == Alt(<<Cat(<<LitI("a"), LitI("m")>>), Cat(<<LitI("p"), LitI("m")>>)>>)

\* \b\d{1,2}/\d{1,2}/\d{2,4}\b
ReDateDMY == Cat(<<WordBoundary, Rep(D, 1, 2), Slash, Rep(D, 1, 2), Slash,
                   Rep(D, 2, 4), WordBoundary>>)
\* \b\d{4}-\d{1,2}-\d{1,2}\b
ReDateYMDDash == Cat(<<WordBoundary, Rep(D, 4, 4), Dash, Rep(D, 1, 2), Dash,
                       Rep(D, 1, 2), WordBoundary>>)
\* \b\d{4}/\d{1,2}/\d{1,2}\b
ReDateYMDSlash == Cat(<<WordBoundary, Rep(D, 4, 4), Slash, Rep(D, 1, 2), Slash,
                        Rep(D, 1, 2), WordBoundary>>)
\* \b\d{1,2}:\d{2}(?::\d{2})?\s*(am|pm)?\b   (IGNORECASE)
ReClock == Cat(<<WordBoundary, Rep(D, 1, 2), Colon, Rep(D, 2, 2),
                 Opt(Cat(<<Colon, Rep(D, 2, 2)>>)), Spaces, Opt(AmPm),
                 WordBoundary>>)
\* \b\d{1,2}\s*(am|pm)\b   (IGNORECASE)
ReHourAmPm == Cat(<<WordBoundary, Rep(D, 1, 2), Spaces, AmPm, WordBoundary>>)
\* \b(am|pm)\b   (IGNORECASE)
ReAmPm == Cat(<<WordBoundary, AmPm, WordBoundary>>)
\* [-:\.,/]{2,}
RePunctRun == Rep(Set({"-", ":", ".", ",", "/"}), 2, -1)
\* [\s:\-\[\],\.]+
ReSeparators == Plus(Set(Whitespace \cup {":", "-", "[", "]", ",", "."}))

strip_timestamp(s) ==
    LET s1 == re_sub(ReDateDMY, <<>>, s)
        s2 == re_sub(ReDateYMDDash, <<>>, s1)
        s3 == re_sub(ReDateYMDSlash, <<>>, s2)
        s4 == re_sub(ReClock, <<>>, s3)
        s5 == re_sub(ReHourAmPm, <<>>, s4)
        s6 == re_sub(ReAmPm, <<>>, s5)
        s7 == re_sub(RePunctRun, <<" ">>, s6)
        s8 == re_sub(ReSeparators, <<" ">>, s7)
    IN  strip(s8)

-----------------------------------------------------------------------------
(* aggregate_errors: the key of one entry *)

\* ^error(\s*\([^\)]*\))?[\s:\-\[\]\(\)\.]*   (IGNORECASE)
RePrefix == Cat(<<StartOfString, LitI("e"), LitI("r"), LitI("r"), LitI("o"),
                  LitI("r"),
                  Opt(Cat(<<Spaces, Lit("("), Star(NotSet({")"})), Lit(")")>>)),
                  Star(Set(Whitespace \cup {":", "-", "[", "]", "(", ")", "."}))>>)
\* ^[^a-zA-Z]+
ReNonLetters == Cat(<<StartOfString, Plus(NotSet(AsciiLetter))>>)

\* A variant of NewNoTime that leaves the first character as it is.
NewNoTimeNoUpper(nt) ==
    re_sub(ReNonLetters, <<>>, re_sub(RePrefix, <<>>, nt))

\* The value of new_no_time after lines 48-51.
NewNoTime(nt) ==
    LET a == re_sub(RePrefix, <<>>, nt)
        b == re_sub(ReNonLetters, <<>>, a)
    IN  IF b # <<>> THEN <<UpperChar(b[1])>> \o Tail(b) ELSE b

PhraseA == Chars("cytek device readafpgaregister")
PhraseM == Chars("cytek device readmfpgaregisterrmt")
PhraseW == Chars("cytek device writemfpgaregisterrmt")
LabelA == Chars("Cytek device readafpgaregister")
LabelM == Chars("Cytek device readmfpgaregisterrmt")
LabelW == Chars("Cytek device writemfpgaregisterrmt")

\* A variant of Key that tests readmfpgaregisterrmt before readafpgaregister.
KeyReadMFirst(ntl, nnt) ==
    IF Contains(ntl, PhraseM) THEN LabelM
    ELSE IF Contains(ntl, PhraseA) THEN LabelA
    ELSE IF Contains(ntl, PhraseW) THEN LabelW
    ELSE nnt

\* The value of key after lines 53-60.
Key(ntl, nnt) ==
    IF Contains(ntl, PhraseA) THEN LabelA
    ELSE IF Contains(ntl, PhraseM) THEN LabelM
    ELSE IF Contains(ntl, PhraseW) THEN LabelW
    ELSE nnt

-----------------------------------------------------------------------------
(* Python dicts (insertion-ordered) as sequences of <<key, value>> pairs *)

HasKey(d, k) == \E j \in DOMAIN d : d[j][1] = k
\* d.get(k, default)
Get(d, k, default) ==
    IF HasKey(d, k) THEN d[CHOOSE j \in DOMAIN d : d[j][1] = k][2] ELSE default
\* d[k] = v: a new key goes last, an old key keeps its place.
Put(d, k, v) ==
    IF HasKey(d, k)
    THEN [j \in DOMAIN d |-> IF d[j][1] = k THEN <<k, v>> ELSE d[j]]
    ELSE Append(d, <<k, v>>)
DictKeys(d) == [j \in DOMAIN d |-> d[j][1]]

\* Variants of Count: one sets the count to 1 whatever it was, one skips
\* the empty key.
CountReset(d, k) == Put(d, k, 1)
CountSkipEmpty(d, k) == IF k = <<>> THEN d ELSE Put(d, k, Get(d, k, 0) + 1)

\* summary[key] = summary.get(key, 0) + 1
Count(d, k) == Put(d, k, Get(d, k, 0) + 1)

\* sorted(items, key=lambda x: x[1], reverse=True): a stable sort, so items
\* of equal count keep their order.
RECURSIVE InsertDesc(_, _)
InsertDesc(r, x) ==
    IF r = <<>> THEN <<x>>
    ELSE IF Head(r)[2] >= x[2] THEN <<Head(r)>> \o InsertDesc(Tail(r), x)
    ELSE <<x>> \o r

\* A variant of sorted_desc that takes the items from last to first, so that
\* items of equal count come out in reverse order.
RECURSIVE sorted_desc_ties_reversed(_)
sorted_desc_ties_reversed(items) ==
    IF items = <<>> THEN <<>>
    ELSE InsertDesc(sorted_desc_ties_reversed(Tail(items)), Head(items))

RECURSIVE sorted_desc(_)
sorted_desc(items) ==
    IF items = <<>> THEN <<>>
    ELSE InsertDesc(sorted_desc(SubSeq(items, 1, Len(items) - 1)), items[Len(items)])

DigitChars == Chars("0123456789")
\* f"{int(v)}" for v >= 0
RECURSIVE IntStr(_)
IntStr(n) == IF n < 10 THEN <<DigitChars[n + 1]>>
             ELSE IntStr(n \div 10) \o <<DigitChars[(n % 10) + 1]>>

\* The integer nearest num/den, a tie going to the even one: what the
\* format ".1f" yields for the float 100*v/total when total < 2000 (the
\* quotient is then no tie, or a tie that the float holds exactly).
RoundHalfEven(num, den) ==
    LET q == num \div den
        r == num % den
    IN  IF 2 * r < den THEN q
        ELSE IF 2 * r > den THEN q + 1
        ELSE IF q % 2 = 0 THEN q ELSE q + 1

\* A variant of Fixed1 that cuts the digits after the first decimal.
Fixed1Truncated(v, tot) ==
    IntStr(((1000 * v) \div tot) \div 10) \o <<".">> \o IntStr(((1000 * v) \div tot) % 10)

\* f"{(100*v/total):.1f}"
Fixed1(v, tot) ==
    LET tenths == RoundHalfEven(1000 * v, tot)
    IN  IntStr(tenths \div 10) \o <<".">> \o IntStr(tenths % 10)

\* f"{int(v)} ({(100*v/total):.1f}%)"
PercentString(v, tot) == IntStr(v) \o Chars(" (") \o Fixed1(v, tot) \o Chars("%)")

\* {k: f"..." for k, v in display_summary.items()} if total else {}
Percentages(ds, tot) ==
    IF tot # 0 THEN [j \in DOMAIN ds |-> <<ds[j][1], PercentString(ds[j][2], tot)>>]
    ELSE <<>>

-----------------------------------------------------------------------------
(* parse_log_file *)

\* A byte that is no valid UTF-8: bytes.decode('utf-8', errors='ignore')
\* drops it.
BadByte == "<ff>"
decode(b) == SelectSeq(b, LAMBDA c : c # BadByte)

\* File iteration: the line at offset p runs through the next "\n", or to the
\* end of the data.
LineEnd(data, p) ==
    LET q == First(p + 1, Len(data), [k \in 1..Len(data) |-> data[k] = "\n"])
    IN  IF q > Len(data) THEN Len(data) ELSE q
readline(data, p) == SubSeq(data, p + 1, LineEnd(data, p))

\* A variant of IsErrorLine that compares case-sensitively.
IsErrorLineCaseSensitive(line) == Contains(line, Chars("error"))

\* "error" in line.lower()
IsErrorLine(line) == Contains(lower(line), Chars("error"))

\* One iteration of the loop of parse_log_file (lines 31-36).
ParseLine ==
    /\ pc = "parse"
    /\ pos < Len(file.data)
    /\ LET raw == readline(file.data, pos)
           line == IF file.kind = "bytes" THEN decode(raw) ELSE raw
       IN  /\ lines' = Append(lines, rstrip_newline(line))
           /\ errors' = IF IsErrorLine(line)
                        THEN Append(errors, <<i, rstrip_newline(line)>>)
                        ELSE errors
           /\ pos' = pos + Len(raw)
    /\ i' = i + 1
    /\ UNCHANGED <<pc, file, logs_errors, src, idx, err, no_time, no_time_lower,
                   new_no_time, key, summary, total, display_summary,
                   percentages, s_in, s_once, s_twice>>

\* The file is exhausted: return lines, errors (line 37).
ParseReturn ==
    /\ pc = "parse"
    /\ pos >= Len(file.data)
    /\ pc' = "parsed"
    /\ UNCHANGED <<file, pos, i, lines, errors, logs_errors, src, idx, err,
                   no_time, no_time_lower, new_no_time, key, summary, total,
                   display_summary, percentages, s_in, s_once, s_twice>>

-----------------------------------------------------------------------------
(* aggregate_errors *)

\* The first source at or after index n that has an entry; 0 when none has.
RECURSIVE NextSource(_, _)
NextSource(m, n) ==
    IF n > Len(m) THEN 0
    ELSE IF m[n][2] # <<>> THEN n ELSE NextSource(m, n + 1)

\* The position <<source, entry>> the nested loops reach after <<n, k>>;
\* <<0, 0>> when both are exhausted.
NextEntry(m, n, k) ==
    IF n <= Len(m) /\ k < Len(m[n][2]) THEN <<n, k + 1>>
    ELSE IF NextSource(m, n + 1) # 0 THEN <<NextSource(m, n + 1), 1>>
    ELSE <<0, 0>>

\* One iteration of the inner loop (lines 43-62).
AggEntry ==
    /\ pc = "agg"
    /\ NextEntry(logs_errors, src, idx) # <<0, 0>>
    /\ src' = NextEntry(logs_errors, src, idx)[1]
    /\ idx' = NextEntry(logs_errors, src, idx)[2]
    /\ err' = logs_errors[src'][2][idx'][2]
    /\ no_time' = strip_timestamp(strip(err'))
    /\ no_time_lower' = lower(no_time')
    /\ new_no_time' = NewNoTime(no_time')
    /\ key' = Key(no_time_lower', new_no_time')
    /\ summary' = Count(summary, key')
    /\ total' = total + 1
    /\ UNCHANGED <<pc, file, pos, i, lines, errors, logs_errors,
                   display_summary, percentages, s_in, s_once, s_twice>>

\* A variant of Return whose percentages follow the order of summary, not
\* the order of display_summary.
ReturnPercentagesUnsorted(summ, tot) ==
    <<sorted_desc(summ), Percentages(summ, tot)>>

\* Lines 64-66: <<display_summary, percentages>>.
Return(summ, tot) ==
    LET ds == sorted_desc(summ) IN <<ds, Percentages(ds, tot)>>

\* The loops are exhausted: sort, format, return.
AggReturn ==
    /\ pc = "agg"
    /\ NextEntry(logs_errors, src, idx) = <<0, 0>>
    /\ display_summary' = Return(summary, total)[1]
    /\ percentages' = Return(summary, total)[2]
    /\ pc' = "returned"
    /\ UNCHANGED <<file, pos, i, lines, errors, logs_errors, src, idx, err,
                   no_time, no_time_lower, new_no_time, key, summary, total,
                   s_in, s_once, s_twice>>

-----------------------------------------------------------------------------
(* strip_timestamp called on a text, and again on its own result *)

StripOnce ==
    /\ pc = "strip"
    /\ s_once' = strip_timestamp(s_in)
    /\ pc' = "once"
    /\ UNCHANGED <<file, pos, i, lines, errors, logs_errors, src, idx, err,
                   no_time, no_time_lower, new_no_time, key, summary, total,
                   display_summary, percentages, s_in, s_twice>>

StripAgain ==
    /\ pc = "once"
    /\ s_twice' = strip_timestamp(s_once)
    /\ pc' = "twice"
    /\ UNCHANGED <<file, pos, i, lines, errors, logs_errors, src, idx, err,
                   no_time, no_time_lower, new_no_time, key, summary, total,
                   display_summary, percentages, s_in, s_once>>

-----------------------------------------------------------------------------
(* Inputs *)

MaxChunks == 4
MaxEntries == 4
MaxFrags == 2
MaxParts == 3

SeqsUpTo(S, n) == UNION {[1..m -> S] : m \in 0..n}

\* The sequences of ss joined, in order.
RECURSIVE Concat(_)
Concat(ss) ==
    IF ss = <<>> THEN <<>>
    ELSE IF Len(ss) = 1 THEN ss[1]
    ELSE Concat(SubSeq(ss, 1, Len(ss) \div 2))
         \o Concat(SubSeq(ss, Len(ss) \div 2 + 1, Len(ss)))

\* Streams given to parse_log_file: pieces of lines and line ends.
Chunks == {Chars("Error: pump"), Chars("ok 12"), Chars(" 10:23 ERROR"),
           <<"e", "r", "r", BadByte, "o", "r">>, <<"e", "r", BadByte>>,
           <<"\n">>, <<"\r", "\n">>}
Streams ==
    {f \in [kind : {"bytes", "text"}, data : {Concat(cs) : cs \in SeqsUpTo(Chunks, MaxChunks)}] :
        f.kind = "text" => \A k \in DOMAIN f.data : f.data[k] # BadByte}

\* Entry texts for mappings of several entries.
Texts == {Chars("10:23 Error"),
          Chars("Error 3 PM\r"),
          Chars("Error - pump"),
          Chars("ERROR: Cytek device readAfpgaRegister 0x4F")}

\* Entry texts for mappings of one entry: up to MaxFrags of these in a row.
Fragments == {Chars("Error"), Chars("error: "),
              Chars("2024-01-15 10:23:45 ERROR "),
              Chars(" at 3:05 PM\r"),
              Chars("Cytek device readAfpgaRegister failed"),
              Chars("cytek device readMfpgaRegisterRmt"),
              Chars(" CYTEK DEVICE WRITEMFPGAREGISTERRMT 0x4F"),
              Chars(" (code 5)"),
              Chars("(Cytek device readAfpgaRegister)"),
              Chars(" - pump stall detected"),
              Chars("[12] é9_x"),
              Chars("(")}

Entries(ts) == [k \in DOMAIN ts |-> <<k - 1, ts[k]>>]

\* Arguments of aggregate_errors: no source; two sources sharing up to
\* MaxEntries entries; one source of one entry.
Mappings ==
    {<<>>}
    \cup UNION {{<< <<"ApplicationLog.txt", Entries(SubSeq(q, 1, c))>>,
                    <<"SetupEngineLog.txt", Entries(SubSeq(q, c + 1, Len(q)))>> >> :
                     c \in 0..Len(q)} : q \in SeqsUpTo(Texts, MaxEntries)}
    \cup {<< <<"ApplicationLog.txt", Entries(<<Concat(fs)>>)>> >> :
             fs \in SeqsUpTo(Fragments, MaxFrags)}

\* Arguments of strip_timestamp: up to MaxParts of these in a row.
Parts == {Chars("1/1/"), Chars("12/25/2021 "), Chars("2024-01-15"),
          Chars("2020/1/2"), Chars("10:23:45"), Chars("1:00 "), Chars("3 pm"),
          Chars("AM"), Chars("20"), Chars(" "), Chars("-"), Chars(".."),
          Chars("Error:"), Chars("x")}

-----------------------------------------------------------------------------
(* Specifications *)

NoFile == [kind |-> "text", data |-> <<>>]

ParseIdle == /\ file = NoFile /\ pos = 0 /\ i = 0 /\ lines = <<>> /\ errors = <<>>
AggIdle == /\ logs_errors = <<>> /\ src = 1 /\ idx = 0 /\ err = <<>>
           /\ no_time = <<>> /\ no_time_lower = <<>> /\ new_no_time = <<>>
           /\ key = <<>> /\ summary = <<>> /\ total = 0
           /\ display_summary = <<>> /\ percentages = <<>>
StripIdle == /\ s_in = <<>> /\ s_once = <<>> /\ s_twice = <<>>

\* parse_log_file(file): file.seek(0), errors = [], lines = [].
InitParse ==
    /\ pc = "parse"
    /\ file \in Streams
    /\ pos = 0 /\ i = 0 /\ lines = <<>> /\ errors = <<>>
    /\ AggIdle /\ StripIdle
NextParse == ParseLine \/ ParseReturn
SpecParse == InitParse /\ [][NextParse]_vars

\* aggregate_errors(logs_errors): summary = {}, total = 0.
InitAgg ==
    /\ pc = "agg"
    /\ logs_errors \in Mappings
    /\ src = 1 /\ idx = 0 /\ err = <<>>
    /\ no_time = <<>> /\ no_time_lower = <<>> /\ new_no_time = <<>> /\ key = <<>>
    /\ summary = <<>> /\ total = 0
    /\ display_summary = <<>> /\ percentages = <<>>
    /\ ParseIdle /\ StripIdle
NextAgg == AggEntry \/ AggReturn
SpecAgg == InitAgg /\ [][NextAgg]_vars

\* strip_timestamp(s_in)
InitStrip ==
    /\ pc = "strip"
    /\ s_in \in {Concat(ps) : ps \in SeqsUpTo(Parts, MaxParts)}
    /\ s_once = <<>> /\ s_twice = <<>>
    /\ ParseIdle /\ AggIdle
NextStrip == StripOnce \/ StripAgain
SpecStrip == InitStrip /\ [][NextStrip]_vars

-----------------------------------------------------------------------------
(* Properties of aggregate_errors, checked under SpecAgg *)

\* Every entry of the mapping, in the order the loops scan them.
FlatEntries(m) == Concat([n \in DOMAIN m |-> m[n][2]])

\* The text aggregate_errors normalises an entry to, and the key it counts
\* the entry under.
EntryNoTime(text) == strip_timestamp(strip(text))
EntryKey(text) == Key(lower(EntryNoTime(text)), NewNoTime(EntryNoTime(text)))

RECURSIVE SumCounts(_)
SumCounts(d) == IF d = <<>> THEN 0 ELSE Head(d)[2] + SumCounts(Tail(d))

DistinctKeys(d) == \A a, b \in DOMAIN d : d[a][1] = d[b][1] => a = b

\* C1: the counts of the summary add up to the number of entries of the
\* mapping, every key of the summary has a count of at least 1 and appears
\* once; while the loops run, the counts add up to the entries seen so far.
C1_CountsSumToEntries ==
    /\ pc \in {"agg", "returned"} => SumCounts(summary) = total /\ DistinctKeys(summary)
    /\ pc = "returned" =>
          /\ SumCounts(display_summary) = Len(FlatEntries(logs_errors))
          /\ DistinctKeys(display_summary)
          /\ \A j \in DOMAIN display_summary : display_summary[j][2] >= 1

C1_Witness ==
    /\ pc = "returned"
    /\ Len(logs_errors) = 2
    /\ logs_errors[1][2] # <<>> /\ logs_errors[2][2] # <<>>
    /\ Len(display_summary) >= 2
    /\ \E j \in DOMAIN display_summary : display_summary[j][2] >= 2

\* C2: the returned summary is in order of non-increasing count, and of two
\* keys with the same count the one met first, scanning the sources in
\* mapping order and each source's entries in order, comes first.
C2_RankedByCountStable ==
    pc = "returned" =>
        LET flat == FlatEntries(logs_errors)
            ks == [j \in DOMAIN flat |-> EntryKey(flat[j][2])]
            FirstMet(k) == CHOOSE j \in DOMAIN ks :
                              ks[j] = k /\ \A h \in 1..(j - 1) : ks[h] # k
        IN  /\ {display_summary[j][1] : j \in DOMAIN display_summary} = Range(ks)
            /\ DistinctKeys(display_summary)
            /\ \A a, b \in DOMAIN display_summary :
                  a < b =>
                    \/ display_summary[a][2] > display_summary[b][2]
                    \/ /\ display_summary[a][2] = display_summary[b][2]
                       /\ FirstMet(display_summary[a][1]) < FirstMet(display_summary[b][1])

C2_Witness ==
    /\ pc = "returned"
    /\ Len(display_summary) = 3
    /\ display_summary[2][2] = display_summary[3][2]
    /\ display_summary # summary

Labels == {LabelA, LabelM, LabelW}

\* C4: an entry whose lower-cased, timestamp-stripped text contains a device
\* phrase is counted under that phrase's label, whatever the prefix stripping
\* gave; of several phrases readafpgaregister wins over readmfpgaregisterrmt,
\* which wins over writemfpgaregisterrmt; with no phrase the key is the
\* prefix-stripped text.
C4_DevicePhraseOverrides ==
    (pc \in {"agg", "returned"} /\ total > 0) =>
        LET hasA == Contains(no_time_lower, PhraseA)
            hasM == Contains(no_time_lower, PhraseM)
            hasW == Contains(no_time_lower, PhraseW)
        IN  /\ no_time_lower = lower(no_time)
            /\ hasA => key = LabelA
            /\ (~hasA /\ hasM) => key = LabelM
            /\ (~hasA /\ ~hasM /\ hasW) => key = LabelW
            /\ (~hasA /\ ~hasM /\ ~hasW) => key = new_no_time
            /\ Get(summary, key, 0) >= 1

C4_Witness ==
    /\ pc = "agg" /\ total > 0
    /\ Contains(no_time_lower, PhraseA)
    /\ Contains(no_time_lower, PhraseM)
    /\ key = LabelA
    /\ new_no_time # LabelA
    /\ Get(summary, LabelA, 0) = 1

NoPhrase(ntl) == /\ ~Contains(ntl, PhraseA) /\ ~Contains(ntl, PhraseM)
                 /\ ~Contains(ntl, PhraseW)

\* C7 as claimed: an entry whose text is empty after timestamp stripping and
\* prefix stripping is counted under the key "".
C7_EmptyTextCountedUnderEmptyKey ==
    (pc \in {"agg", "returned"} /\ total > 0 /\ new_no_time = <<>>) =>
        key = <<>> /\ Get(summary, <<>>, 0) >= 1

\* C7, amended: an entry whose text is empty after timestamp stripping and
\* prefix stripping, and whose normalised text contains none of the three
\* device phrases, is counted under the key "": the summary and the
\* percentages hold "" with exactly the number of such entries.
C7_EmptyKeyBucket ==
    /\ (pc \in {"agg", "returned"} /\ total > 0 /\ new_no_time = <<>>
          /\ NoPhrase(no_time_lower)) =>
           key = <<>> /\ Get(summary, <<>>, 0) >= 1
    /\ pc = "returned" =>
          LET flat == FlatEntries(logs_errors)
              empties == {j \in DOMAIN flat :
                            /\ NewNoTime(EntryNoTime(flat[j][2])) = <<>>
                            /\ NoPhrase(lower(EntryNoTime(flat[j][2])))}
              n == Cardinality(empties)
          IN  /\ Get(display_summary, <<>>, 0) = n
              /\ HasKey(display_summary, <<>>) <=> n > 0
              /\ HasKey(percentages, <<>>) <=> n > 0
              /\ n > 0 =>
                   LET shown == Get(percentages, <<>>, <<>>)
                   IN  SubSeq(shown, 1, Len(IntStr(n)) + 1) = IntStr(n) \o <<" ">>

C7_Witness ==
    /\ pc = "returned"
    /\ Get(display_summary, <<>>, 0) = 2
    /\ Len(display_summary) >= 2
    /\ HasKey(percentages, <<>>)

\* C8: with no entry at all (an empty mapping, or only empty sources) the
\* call returns an empty summary and empty percentages; otherwise the
\* percentages have the keys of the returned summary, in the same order.
C8_EmptyInputEmptyResult ==
    pc = "returned" =>
        /\ total = Len(FlatEntries(logs_errors))
        /\ total = 0 => display_summary = <<>> /\ percentages = <<>>
        /\ total > 0 => /\ display_summary # <<>>
                        /\ DictKeys(percentages) = DictKeys(display_summary)

C8_Witness ==
    /\ pc = "returned"
    /\ Len(logs_errors) = 2
    /\ total = 0
    /\ display_summary = <<>> /\ percentages = <<>>

\* Reading a percentage string back: "<count> (<int>.<digit>%)".
IsNumeral(sq) == /\ sq # <<>>
                 /\ \A k \in DOMAIN sq : sq[k] \in Digit
                 /\ Len(sq) = 1 \/ sq[1] # "0"
RECURSIVE NatOf(_)
NatOf(sq) == IF sq = <<>> THEN 0
             ELSE 10 * NatOf(SubSeq(sq, 1, Len(sq) - 1))
                  + (IndexOf(DigitChars, sq[Len(sq)]) - 1)
SpaceAt(str) == CHOOSE k \in DOMAIN str : str[k] = " "
ShownCountText(str) == SubSeq(str, 1, SpaceAt(str) - 1)
ShownIntText(str) == SubSeq(str, SpaceAt(str) + 2, Len(str) - 4)
WellFormedPercent(str) ==
    /\ Len(str) >= 8
    /\ \E k \in DOMAIN str : str[k] = " "
    /\ IsNumeral(ShownCountText(str))
    /\ str[SpaceAt(str) + 1] = "("
    /\ IsNumeral(ShownIntText(str))
    /\ str[Len(str) - 3] = "."
    /\ str[Len(str) - 2] \in Digit
    /\ str[Len(str) - 1] = "%"
    /\ str[Len(str)] = ")"
ShownCount(str) == NatOf(ShownCountText(str))
\* The displayed percentage, in tenths of a percent.
ShownTenths(str) == 10 * NatOf(ShownIntText(str)) + NatOf(<<str[Len(str) - 2]>>)

Abs(x) == IF x < 0 THEN -x ELSE x

RECURSIVE SumTenths(_)
SumTenths(d) == IF d = <<>> THEN 0 ELSE ShownTenths(Head(d)[2]) + SumTenths(Tail(d))

\* C9: with total > 0 every percentage string reads "<count> (<p>%)", p
\* having one decimal and lying within 0.05 of 100 * count / total, and the
\* displayed p add up to 100 within 0.1 times the number of keys.
C9_PercentagesRounded ==
    (pc = "returned" /\ total > 0) =>
        /\ Len(percentages) = Len(display_summary)
        /\ \A j \in DOMAIN percentages :
              /\ percentages[j][1] = display_summary[j][1]
              /\ WellFormedPercent(percentages[j][2])
              /\ ShownCount(percentages[j][2]) = display_summary[j][2]
              /\ 2 * Abs(ShownTenths(percentages[j][2]) * total
                         - 1000 * display_summary[j][2]) <= total
        /\ Abs(SumTenths(percentages) - 1000) <= Len(percentages)

C9_Witness ==
    /\ pc = "returned"
    /\ total = 3
    /\ Len(percentages) = 3
    /\ SumTenths(percentages) = 999

\* C10: a key that is not a device label is empty or begins with one of
\* A-Z, and is then an end piece of the normalised line with only its first
\* character upper-cased.
C10_GenericKeyCapitalised ==
    /\ \A j \in DOMAIN summary :
          summary[j][1] \notin Labels =>
              summary[j][1] = <<>> \/ summary[j][1][1] \in AsciiUpper
    /\ \A j \in DOMAIN display_summary :
          display_summary[j][1] \notin Labels =>
              display_summary[j][1] = <<>> \/ display_summary[j][1][1] \in AsciiUpper
    /\ (pc \in {"agg", "returned"} /\ total > 0 /\ key \notin Labels /\ key # <<>>) =>
          LET from == Len(no_time) - Len(key) + 1
          IN  /\ from >= 1
              /\ key[1] \in AsciiUpper
              /\ key[1] = UpperChar(no_time[from])
              /\ Tail(key) = SubSeq(no_time, from + 1, Len(no_time))

C10_Witness ==
    /\ pc = "agg" /\ total > 0
    /\ key \notin Labels /\ key # <<>>
    /\ Len(key) < Len(no_time)
    /\ no_time[Len(no_time) - Len(key) + 1] \in AsciiLower
    /\ no_time[Len(no_time) - Len(key)] \notin AsciiLetter

-----------------------------------------------------------------------------
(* Properties of parse_log_file, checked under SpecParse *)

\* The lines file iteration yields, decoded when the stream is of bytes.
RECURSIVE RawLinesFrom(_, _)
RawLinesFrom(data, p) ==
    IF p >= Len(data) THEN <<>>
    ELSE <<readline(data, p)>> \o RawLinesFrom(data, LineEnd(data, p))
InputLines(f) ==
    LET raw == RawLinesFrom(f.data, 0)
    IN  [k \in DOMAIN raw |-> IF f.kind = "bytes" THEN decode(raw[k]) ELSE raw[k]]

\* A line without its one trailing newline.
WithoutNewline(l) ==
    IF l # <<>> /\ l[Len(l)] = "\n" THEN SubSeq(l, 1, Len(l) - 1) ELSE l

\* The line holds e, r, r, o, r in a row, in either case.
HasErrorAnyCase(l) ==
    \E k \in 0..(Len(l) - 5) :
        /\ l[k + 1] \in {"e", "E"} /\ l[k + 2] \in {"r", "R"}
        /\ l[k + 3] \in {"r", "R"} /\ l[k + 4] \in {"o", "O"}
        /\ l[k + 5] \in {"r", "R"}

\* C3: the errors list holds <<n, line n without its newline>> exactly for
\* the lines n (from 0) that contain "error" in any case, in increasing order
\* of n, and the lines list holds every line, in order, without its newline.
C3_ErrorsAreTheErrorLines ==
    pc = "parsed" =>
        LET L == InputLines(file)
        IN  /\ Len(lines) = Len(L)
            /\ \A k \in DOMAIN L : lines[k] = WithoutNewline(L[k])
            /\ \A k \in DOMAIN L :
                  (\E j \in DOMAIN errors : errors[j] = <<k - 1, WithoutNewline(L[k])>>)
                      <=> HasErrorAnyCase(L[k])
            /\ \A j \in DOMAIN errors :
                  /\ errors[j][1] \in 0..(Len(L) - 1)
                  /\ errors[j][2] = WithoutNewline(L[errors[j][1] + 1])
            /\ \A a, b \in DOMAIN errors : a < b => errors[a][1] < errors[b][1]

C3_Witness ==
    /\ pc = "parsed"
    /\ Len(lines) = 3
    /\ Len(errors) = 2
    /\ errors[1][1] = 0 /\ errors[2][1] = 2
    /\ Contains(errors[2][2], Chars("ERROR"))

\* C6 as claimed: no element of the lines list and no text of the errors list
\* ends with a newline or a carriage return.
C6_NoLineTerminatorLeft ==
    /\ \A k \in DOMAIN lines :
          lines[k] = <<>> \/ lines[k][Len(lines[k])] \notin {"\n", "\r"}
    /\ \A j \in DOMAIN errors :
          errors[j][2] = <<>> \/ errors[j][2][Len(errors[j][2])] \notin {"\n", "\r"}

-----------------------------------------------------------------------------
(* Property of strip_timestamp, checked under SpecStrip *)

\* C5 as claimed: strip_timestamp applied to its own result changes nothing.
C5_StripIdempotent == pc = "twice" => s_twice = s_once

=============================================================================
